---- MODULE Spec2Model ----
(***************************************************************************)
(* Model of cursorruler.py: the comment/whitespace scanner of              *)
(* process_file_content, the file selection and aggregation loop of main,  *)
(* and the template merge of main's post-processing.                       *)
(*                                                                         *)
(* Text is a sequence of one-character strings.  A path is a sequence of   *)
(* components, each component a text; str(path) joins them with "/".       *)
(***************************************************************************)
EXTENDS Integers, Sequences, FiniteSets, TLC

VARIABLES
    \* ---- process_file_content (the scanner, one loop iteration per step)
    file_ext,               \* file.suffix.lower()
    content,                \* the text handed to process_file_content
    i,                      \* scan index (1-based; Python's i + 1)
    in_multiline_comment,
    in_string,
    string_char,
    buffer,
    spc,                    \* "idle" | "scan" | "other" | "done"
    result                  \* the value process_file_content returned

scanVars == <<file_ext, content, i, in_multiline_comment, in_string,
              string_char, buffer, spc, result>>

VARIABLES
    \* ---- the environment of a run of main
    disk,                   \* the regular files below the working directory
    template_text,          \* what .cursorrules-template holds
    output_file,            \* args.output_file
    star_files,             \* Path.glob: a trailing "**" also yields files
    \* ---- main
    pc,
    excluded_files,
    matching_files,
    todo,                   \* what is left of sorted(matching_files)
    outfile,                \* the writes to the output file, in order
    processed_count,
    errors,                 \* the files reported by line 227
    combined_content,
    template_content,
    final_content,
    rules,                  \* what lines 257-258 wrote to .cursorrules, if anything
    exit_status

mainVars == <<disk, template_text, output_file, star_files, pc, excluded_files,
              matching_files, todo, outfile, processed_count, errors,
              combined_content, template_content, final_content, rules, exit_status>>

vars == <<scanVars, mainVars>>

----------------------------------------------------------------------------
(* Bounds *)

MaxTokens == 4
MaxFiles == 3
MaxPieces == 3

----------------------------------------------------------------------------
(* Text helpers *)

\* Python's None, where a character is expected
None == "None"

\* no text: a name not yet bound, a file not written
NoText == <<"None">>

\* the exit status of the process: none while it runs
NotExited == <<>>
Exited(n) == <<n>>

Whitespace == {" ", "\n", "\t"}

isspace(c) == c \in Whitespace

\* the backquote character (not writable in a string literal here)
Backquote == "BACKQUOTE"

QuoteChars == {"\"", "'", Backquote}

StructuredExts == {<<".", "d", "a", "r", "t">>,
                   <<".", "y", "a", "m", "l">>,
                   <<".", "j", "s", "o", "n">>}

\* content[i : i + len(tok)] == tok, with the 1-based index i
At(c, k, tok) ==
    /\ k >= 1
    /\ k + Len(tok) - 1 <= Len(c)
    /\ SubSeq(c, k, k + Len(tok) - 1) = tok

RECURSIVE lstrip(_)
lstrip(s) ==
    IF s # <<>> /\ isspace(Head(s)) THEN lstrip(Tail(s)) ELSE s

RECURSIVE rstrip(_)
rstrip(s) ==
    IF s # <<>> /\ isspace(s[Len(s)]) THEN rstrip(SubSeq(s, 1, Len(s) - 1)) ELSE s

strip(s) == rstrip(lstrip(s))

----------------------------------------------------------------------------
(* The scanner of process_file_content, lines 67-115.  A scan state is the *)
(* record of the loop's locals.                                            *)

ScanInit ==
    [i |-> 1, in_multiline_comment |-> FALSE, in_string |-> FALSE,
     string_char |-> None, buffer |-> <<>>]

\* the inner while of the single-line comment branch: the index of the next
\* "\n" at or after k, or Len(c) + 1
RECURSIVE SkipToNewline(_, _)
SkipToNewline(c, k) ==
    IF k <= Len(c) /\ c[k] # "\n" THEN SkipToNewline(c, k + 1) ELSE k

IsQuoteAt(c, k) ==
    /\ c[k] \in QuoteChars
    /\ (k = 1 \/ c[k - 1] # "\\")

\* line 89 with a plausible slip: the in-string test left out
LineCommentAtAnywhere(c, s) == At(c, s.i, <<"/", "/">>)

\* line 89: a single-line comment starts here
LineCommentAt(c, s) == At(c, s.i, <<"/", "/">>) /\ ~s.in_string

\* which branch of the loop body runs in state s
Branch(c, s) ==
    IF At(c, s.i, <<"/", "*">>) /\ ~s.in_string THEN "block_open"
    ELSE IF At(c, s.i, <<"*", "/">>) /\ s.in_multiline_comment THEN "block_close"
    ELSE IF s.in_multiline_comment THEN "block_skip"
    ELSE IF LineCommentAt(c, s) THEN "line_comment"
    ELSE IF IsQuoteAt(c, s.i) THEN "quote"
    ELSE IF isspace(c[s.i]) /\ ~s.in_string THEN "whitespace"
    ELSE "emit"

\* lines 84-86 with a plausible slip: line breaks of the comment are kept
BlockSkipKeepingNewlines(c, s) ==
    [s EXCEPT !.buffer = IF c[s.i] = "\n" THEN Append(s.buffer, "\n") ELSE s.buffer,
              !.i = s.i + 1]

\* lines 84-86: inside a block comment one character is skipped
BlockSkip(c, s) == [s EXCEPT !.i = s.i + 1]

\* lines 107-108 with a plausible slip: whitespace is dropped, not collapsed
DropWhitespace(buf) == buf

\* lines 107-108: a single space unless the last emitted character is whitespace
CollapseWhitespace(buf) ==
    IF buf # <<>> /\ ~isspace(buf[Len(buf)]) THEN Append(buf, " ") ELSE buf

\* one iteration of the while loop
ScanStep(c, s) ==
    LET b == Branch(c, s) IN
    CASE b = "block_open"   -> [s EXCEPT !.in_multiline_comment = TRUE, !.i = s.i + 2]
      [] b = "block_close"  -> [s EXCEPT !.in_multiline_comment = FALSE, !.i = s.i + 2]
      [] b = "block_skip"   -> BlockSkip(c, s)
      [] b = "line_comment" -> [s EXCEPT !.i = SkipToNewline(c, s.i)]
      [] b = "quote"        ->
            [s EXCEPT !.in_string = IF ~s.in_string THEN TRUE
                                    ELSE IF c[s.i] = s.string_char THEN FALSE
                                    ELSE TRUE,
                      !.string_char = IF ~s.in_string THEN c[s.i] ELSE s.string_char,
                      !.buffer = Append(s.buffer, c[s.i]),
                      !.i = s.i + 1]
      [] b = "whitespace"   ->
            [s EXCEPT !.buffer = CollapseWhitespace(s.buffer), !.i = s.i + 1]
      [] OTHER              -> [s EXCEPT !.buffer = Append(s.buffer, c[s.i]), !.i = s.i + 1]

RECURSIVE ScanLoop(_, _)
ScanLoop(c, s) ==
    IF s.i <= Len(c) THEN ScanLoop(c, ScanStep(c, s)) ELSE s

\* lines 67-115: the whole structured branch
Minify(c) == strip(ScanLoop(c, ScanInit).buffer)

----------------------------------------------------------------------------
(* json.dumps(json.loads(content), separators=(",", ":")), line 119, for   *)
(* the JSON texts made of objects, arrays, strings without escapes,        *)
(* unsigned integers and true/false/null.  A parse result is               *)
(* [ok, pos, out]: whether a value was read, the index after it, and its   *)
(* compact serialisation.  Any other text is a JSONDecodeError (ok FALSE). *)

JsonWhitespace == {" ", "\n", "\t", "\r"}

Digits == {"0", "1", "2", "3", "4", "5", "6", "7", "8", "9"}

JsonFail == [ok |-> FALSE, pos |-> 0, out |-> <<>>]

RECURSIVE JsonSkipWs(_, _)
JsonSkipWs(c, k) ==
    IF k <= Len(c) /\ c[k] \in JsonWhitespace THEN JsonSkipWs(c, k + 1) ELSE k

\* the index of the quote closing the string whose first character is at k,
\* or 0 (unterminated, a control character, or an escape)
RECURSIVE JsonStringEnd(_, _)
JsonStringEnd(c, k) ==
    IF k > Len(c) THEN 0
    ELSE IF c[k] = "\"" THEN k
    ELSE IF c[k] \in {"\\", "\n", "\t", "\r"} THEN 0
    ELSE JsonStringEnd(c, k + 1)

RECURSIVE JsonDigitsEnd(_, _)
JsonDigitsEnd(c, k) ==
    IF k <= Len(c) /\ c[k] \in Digits THEN JsonDigitsEnd(c, k + 1) ELSE k

JsonString(c, k) ==
    LET e == JsonStringEnd(c, k + 1) IN
    IF e = 0 THEN JsonFail ELSE [ok |-> TRUE, pos |-> e + 1, out |-> SubSeq(c, k, e)]

JsonNumber(c, k) ==
    LET e == IF c[k] = "0" THEN k + 1 ELSE JsonDigitsEnd(c, k) IN
    IF e <= Len(c) /\ c[e] \in {".", "e", "E"} THEN JsonFail
    ELSE [ok |-> TRUE, pos |-> e, out |-> SubSeq(c, k, e - 1)]

JsonLiteral(c, k) ==
    LET lits == {<<"t", "r", "u", "e">>, <<"f", "a", "l", "s", "e">>, <<"n", "u", "l", "l">>}
        hit  == {l \in lits : At(c, k, l)}
    IN  IF hit = {} THEN JsonFail
        ELSE LET l == CHOOSE x \in hit : TRUE
             IN  [ok |-> TRUE, pos |-> k + Len(l), out |-> l]

\* a dict keeps a key at its first position and the value given last
DictSet(keys, vals, key, val) ==
    IF \E n \in 1..Len(keys) : keys[n] = key
    THEN LET n == CHOOSE m \in 1..Len(keys) : keys[m] = key
         IN  [keys |-> keys, vals |-> [vals EXCEPT ![n] = val]]
    ELSE [keys |-> Append(keys, key), vals |-> Append(vals, val)]

RECURSIVE DumpMembers(_, _, _)
DumpMembers(keys, vals, n) ==
    IF n > Len(keys) THEN <<>>
    ELSE (IF n > 1 THEN <<",">> ELSE <<>>) \o keys[n] \o <<":">> \o vals[n]
         \o DumpMembers(keys, vals, n + 1)

RECURSIVE DumpElements(_, _)
DumpElements(vals, n) ==
    IF n > Len(vals) THEN <<>>
    ELSE (IF n > 1 THEN <<",">> ELSE <<>>) \o vals[n] \o DumpElements(vals, n + 1)

RECURSIVE JsonValue(_, _)
RECURSIVE JsonMembers(_, _, _, _)
RECURSIVE JsonElements(_, _, _)

\* the members of an object from index k (after "{" or ","), keys/vals so far
JsonMembers(c, k, keys, vals) ==
    LET j == JsonSkipWs(c, k) IN
    IF j > Len(c) \/ c[j] # "\"" THEN JsonFail
    ELSE LET key == JsonString(c, j) IN
         IF ~key.ok THEN JsonFail
         ELSE LET j2 == JsonSkipWs(c, key.pos) IN
              IF j2 > Len(c) \/ c[j2] # ":" THEN JsonFail
              ELSE LET v == JsonValue(c, j2 + 1) IN
                   IF ~v.ok THEN JsonFail
                   ELSE LET d  == DictSet(keys, vals, key.out, v.out)
                            j3 == JsonSkipWs(c, v.pos)
                        IN  IF j3 > Len(c) THEN JsonFail
                            ELSE IF c[j3] = "}"
                            THEN [ok |-> TRUE, pos |-> j3 + 1,
                                  out |-> <<"{">> \o DumpMembers(d.keys, d.vals, 1) \o <<"}">>]
                            ELSE IF c[j3] = ","
                            THEN JsonMembers(c, j3 + 1, d.keys, d.vals)
                            ELSE JsonFail

\* the elements of an array from index k (after "[" or ","), vals so far
JsonElements(c, k, vals) ==
    LET v == JsonValue(c, k) IN
    IF ~v.ok THEN JsonFail
    ELSE LET vs == Append(vals, v.out)
             j  == JsonSkipWs(c, v.pos)
         IN  IF j > Len(c) THEN JsonFail
             ELSE IF c[j] = "]"
             THEN [ok |-> TRUE, pos |-> j + 1,
                   out |-> <<"[">> \o DumpElements(vs, 1) \o <<"]">>]
             ELSE IF c[j] = "," THEN JsonElements(c, j + 1, vs)
             ELSE JsonFail

JsonValue(c, k) ==
    LET j == JsonSkipWs(c, k) IN
    IF j > Len(c) THEN JsonFail
    ELSE IF c[j] = "{"
    THEN LET j2 == JsonSkipWs(c, j + 1) IN
         IF j2 <= Len(c) /\ c[j2] = "}"
         THEN [ok |-> TRUE, pos |-> j2 + 1, out |-> <<"{", "}">>]
         ELSE JsonMembers(c, j + 1, <<>>, <<>>)
    ELSE IF c[j] = "["
    THEN LET j2 == JsonSkipWs(c, j + 1) IN
         IF j2 <= Len(c) /\ c[j2] = "]"
         THEN [ok |-> TRUE, pos |-> j2 + 1, out |-> <<"[", "]">>]
         ELSE JsonElements(c, j + 1, <<>>)
    ELSE IF c[j] = "\"" THEN JsonString(c, j)
    ELSE IF c[j] \in Digits THEN JsonNumber(c, j)
    ELSE JsonLiteral(c, j)

\* [ok, out]: ok FALSE is json.JSONDecodeError
json_compact(c) ==
    LET v == JsonValue(c, 1) IN
    IF v.ok /\ JsonSkipWs(c, v.pos) > Len(c)
    THEN [ok |-> TRUE, out |-> v.out]
    ELSE [ok |-> FALSE, out |-> <<>>]

----------------------------------------------------------------------------
(* process_file_content, lines 61-124 *)

DotJson == <<".", "j", "s", "o", "n">>

process_file_content(ext, c) ==
    IF ext \in StructuredExts THEN Minify(c)
    ELSE IF ext = DotJson
    THEN (IF json_compact(c).ok THEN json_compact(c).out ELSE c)
    ELSE c

----------------------------------------------------------------------------
(* Paths.  A relative path is the sequence of its components; an absolute  *)
(* path starts with the root component.                                    *)

\* the characters of the model in code-point order (Python compares text by
\* code point)
AsciiOrder ==
    <<"\t", "\n", " ", "!", "\"", "$", "'", "*", ",", "-", ".", "/",
      "0", "1", "2", "3", "4", "5", "6", "7", "8", "9", ":", "<",
      "=", ">", "A", "B", "C", "D", "E", "F", "G", "H", "I", "J",
      "K", "L", "M", "N", "O", "P", "Q", "R", "S", "T", "U", "V",
      "W", "X", "Y", "Z", "[", "\\", "]", "_", "a", "b", "c", "d",
      "e", "f", "g", "h", "i", "j", "k", "l", "m", "n", "o", "p",
      "q", "r", "s", "t", "u", "v", "w", "x", "y", "z", "{", "|",
      "}">>

ord(c) == CHOOSE k \in 1..Len(AsciiOrder) : AsciiOrder[k] = c

\* text comparison s < t, character by character
RECURSIVE TextLess(_, _)
TextLess(s, t) ==
    IF t = <<>> THEN FALSE
    ELSE IF s = <<>> THEN TRUE
    ELSE IF Head(s) = Head(t) THEN TextLess(Tail(s), Tail(t))
    ELSE ord(Head(s)) < ord(Head(t))

\* PurePath.__lt__: the lists of components are compared, component by component
RECURSIVE PathLess(_, _)
PathLess(p, q) ==
    IF q = <<>> THEN FALSE
    ELSE IF p = <<>> THEN TRUE
    ELSE IF Head(p) = Head(q) THEN PathLess(Tail(p), Tail(q))
    ELSE TextLess(Head(p), Head(q))

\* str(path)
RECURSIVE str(_)
str(p) ==
    IF p = <<>> THEN <<>>
    ELSE IF Len(p) = 1 THEN p[1]
    ELSE p[1] \o <<"/">> \o str(Tail(p))

\* pattern in text
Contains(text, pattern) == \E k \in 1..(Len(text) + 1) : At(text, k, pattern)

Root == <<"/">>
Cwd == <<Root, <<"p", "r", "o", "j">>>>

\* Path(p).resolve() of a relative path without "..", in the working directory
Resolve(p) == Cwd \o p

Upper == <<"A", "B", "C", "D", "E", "F", "G", "H", "I", "J", "K", "L", "M", "N", "O", "P", "Q", "R", "S", "T", "U", "V", "W", "X", "Y", "Z">>
Lowers == <<"a", "b", "c", "d", "e", "f", "g", "h", "i", "j", "k", "l", "m", "n", "o", "p", "q", "r", "s", "t", "u", "v", "w", "x", "y", "z">>

lower_char(c) ==
    IF \E k \in 1..Len(Upper) : Upper[k] = c
    THEN Lowers[CHOOSE k \in 1..Len(Upper) : Upper[k] = c]
    ELSE c

lower(s) == [k \in 1..Len(s) |-> lower_char(s[k])]

\* PurePath.suffix: the last component from its last dot, unless that dot is
\* its first or last character
suffix(p) ==
    LET name == p[Len(p)]
        dots == {k \in 1..Len(name) : name[k] = "."}
    IN  IF dots = {} THEN <<>>
        ELSE LET d == CHOOSE k \in dots : \A m \in dots : m <= k
             IN  IF d = 1 \/ d = Len(name) THEN <<>> ELSE SubSeq(name, d, Len(name))

----------------------------------------------------------------------------
(* Configuration, lines 9-45 and 135-174 *)

EXCLUDED_DIRS ==
    {<<".", "g", "i", "t">>,
     <<"n", "o", "d", "e", "_", "m", "o", "d", "u", "l", "e", "s">>,
     <<".", "v", "s", "c", "o", "d", "e">>,
     <<".", "n", "e", "x", "t">>,
     <<".", "p", "y", "t", "e", "s", "t", "_", "c", "a", "c", "h", "e">>,
     <<"b", "u", "i", "l", "d">>,
     <<".", "i", "d", "e", "a">>,
     <<".", "d", "a", "r", "t", "_", "t", "o", "o", "l">>,
     <<"i", "o", "s">>,
     <<"a", "n", "d", "r", "o", "i", "d">>,
     <<"w", "e", "b">>,
     <<"m", "a", "c", "o", "s">>}

EXCLUDED_FILES ==
    {<<".", "c", "u", "r", "s", "o", "r", "r", "u", "l", "e", "s">>,
     <<".", "c", "u", "r", "s", "o", "r", "r", "u", "l", "e", "s", "-", "t", "e", "m", "p", "l", "a", "t", "e">>,
     <<"c", "u", "r", "s", "o", "r", "r", "u", "l", "e", "r", ".", "p", "y">>,
     <<".", "d", ".", "t", "s">>,
     <<".", "t", "o", "o", "l", "-", "v", "e", "r", "s", "i", "o", "n", "s">>,
     <<".", "l", "o", "c", "k">>,
     <<".", "e", "n", "v">>,
     <<".", "g", ".", "d", "a", "r", "t">>,
     <<".", "g", ".", "y", "a", "m", "l">>,
     <<".", "g", ".", "j", "s", "o", "n">>,
     <<".", "f", "r", "e", "e", "z", "e", "d", ".", "d", "a", "r", "t">>,
     <<".", "a", "r", "b">>,
     <<"R", "E", "A", "D", "M", "E", ".", "m", "d">>}

StarStar == <<"*", "*">>

include_patterns ==
    {<<<<"*", "*">>, <<"*", ".", "d", "a", "r", "t">>>>,
     <<<<"*", "*">>, <<"*", ".", "y", "a", "m", "l">>>>,
     <<<<"*", "*">>, <<"*", ".", "t", "s">>>>,
     <<<<"*", "*">>, <<"*", ".", "t", "s", "x">>>>,
     <<<<"*", "*">>, <<"*", ".", "j", "s", "o", "n">>>>,
     <<<<"*", "*">>, <<"*", ".", "j", "s">>>>,
     <<<<"*", "*">>, <<"*", ".", "j", "s", "x">>>>,
     <<<<"*", "*">>, <<"*", ".", "m", "d">>>>,
     <<<<"*", "*">>, <<"*", ".", "h", "t", "m", "l">>>>,
     <<<<"*", "*">>, <<"*", ".", "c", "s", "s">>>>,
     <<<<"*", "*">>, <<"*", ".", "s", "c", "s", "s">>>>,
     <<<<"*", "*">>, <<"*", ".", "l", "e", "s", "s">>>>,
     <<<<"*", "*">>, <<"*", ".", "s", "t", "y", "l">>>>}

exclude_patterns ==
    {<<<<"*", "*">>, <<"*", ".", "e", "n", "v">>>>,
     <<<<"*", "*">>, <<"*", ".", "m", "d">>>>,
     <<<<"*", "*">>, <<"*", ".", "p", "e", "m">>>>,
     <<<<"*", "*">>, <<"*", ".", "p", "u", "b">>>>,
     <<<<"*", "*">>, <<"*", ".", "t", "f", "p", "l", "a", "n">>>>,
     <<<<"*", "*">>, <<"*", ".", "t", "f", "p", "l", "a", "n", ".", "j", "s", "o", "n">>>>,
     <<<<"*", "*">>, <<"*", ".", "t", "f", "s", "t", "a", "t", "e">>>>,
     <<<<"*", "*">>, <<"*", ".", "t", "f", "s", "t", "a", "t", "e", ".", "b", "a", "c", "k", "u", "p">>>>,
     <<<<"*", "*">>, <<"*", ".", "t", "x", "t">>>>,
     <<<<"*", "*">>, <<".", "c", "u", "r", "s", "o", "r", "r", "u", "l", "e", "s">>>>,
     <<<<"*", "*">>, <<".", "c", "u", "r", "s", "o", "r", "r", "u", "l", "e", "s", "-", "t", "e", "m", "p", "l", "a", "t", "e">>>>,
     <<<<"*", "*">>, <<".", "g", "i", "t">>, <<"*", "*">>>>,
     <<<<"*", "*">>, <<"M", "a", "k", "e", "f", "i", "l", "e">>>>,
     <<<<"*", "*">>, <<"b", "u", "i", "l", "d">>, <<"*", "*">>>>,
     <<<<"*", "*">>, <<"n", "o", "d", "e", "_", "m", "o", "d", "u", "l", "e", "s">>, <<"*", "*">>>>,
     <<<<".", "v", "s", "c", "o", "d", "e">>, <<"*", "*">>>>,
     <<<<"a", "n", "d", "r", "o", "i", "d">>>>,
     <<<<"b", "u", "i", "l", "d">>, <<"*", "*">>>>,
     <<<<"i", "o", "s">>>>,
     <<<<"m", "a", "c", "o", "s">>>>,
     <<<<"w", "e", "b">>>>}

script_name == <<<<"c", "u", "r", "s", "o", "r", "r", "u", "l", "e", "r", ".", "p", "y">>>>
template_path == <<<<".", "c", "u", "r", "s", "o", "r", "r", "u", "l", "e", "s", "-", "t", "e", "m", "p", "l", "a", "t", "e">>>>
rules_path == <<<<".", "c", "u", "r", "s", "o", "r", "r", "u", "l", "e", "s">>>>
Placeholder == <<"$", "{", "C", "O", "D", "E", "B", "A", "S", "E", "}">>

----------------------------------------------------------------------------
(* Path.glob.  The entries of a directory tree are its files and the       *)
(* directories leading to them.                                            *)

Dirs(files) == UNION {{SubSeq(f, 1, n) : n \in 1..(Len(f) - 1)} : f \in files}

Entries(files) == files \cup Dirs(files)

\* fnmatch of one component against a pattern whose only wildcard is "*"
RECURSIVE FnMatch(_, _)
FnMatch(pat, name) ==
    IF pat = <<>> THEN name = <<>>
    ELSE IF Head(pat) = "*"
    THEN FnMatch(Tail(pat), name) \/ (name # <<>> /\ FnMatch(pat, Tail(name)))
    ELSE name # <<>> /\ Head(name) = Head(pat) /\ FnMatch(Tail(pat), Tail(name))

\* pattern components j.. match path components k.. of the entry path.
\* A trailing "**" yields directories only, and files too from Python 3.13
\* (starFiles).
RECURSIVE GlobMatch(_, _, _, _, _, _)
GlobMatch(pat, j, path, k, files, starFiles) ==
    IF j > Len(pat) THEN k > Len(path)
    ELSE IF pat[j] = StarStar
    THEN IF j = Len(pat)
         THEN path \in Dirs(files) \/ (starFiles /\ k <= Len(path))
         ELSE \/ GlobMatch(pat, j + 1, path, k, files, starFiles)
              \/ (k <= Len(path) /\ GlobMatch(pat, j, path, k + 1, files, starFiles))
    ELSE /\ k <= Len(path)
         /\ FnMatch(pat[j], path[k])
         /\ GlobMatch(pat, j + 1, path, k + 1, files, starFiles)

\* p is one of the paths Path().glob(pat) yields
Matches(pat, p, files, starFiles) ==
    p \in Entries(files) /\ GlobMatch(pat, 1, p, 1, files, starFiles)

\* Path().glob(pattern)
Glob(pat, files, starFiles) == {p \in Entries(files) : Matches(pat, p, files, starFiles)}

----------------------------------------------------------------------------
(* str.replace(old, new), line 255: left to right, non-overlapping, the    *)
(* inserted text is not scanned again                                      *)

\* str.replace(old, new, 1): a plausible slip, only the first occurrence
RECURSIVE str_replace_first(_, _, _)
str_replace_first(s, old, new) ==
    IF s = <<>> THEN <<>>
    ELSE IF At(s, 1, old) THEN new \o SubSeq(s, Len(old) + 1, Len(s))
    ELSE <<Head(s)>> \o str_replace_first(Tail(s), old, new)

RECURSIVE str_replace(_, _, _)
str_replace(s, old, new) ==
    IF s = <<>> THEN <<>>
    ELSE IF At(s, 1, old)
    THEN new \o str_replace(SubSeq(s, Len(old) + 1, Len(s)), old, new)
    ELSE <<Head(s)>> \o str_replace(Tail(s), old, new)

----------------------------------------------------------------------------
(* The files of the runs that are checked *)

a_json == <<<<"a", ".", "j", "s", "o", "n">>>>
b_json == <<<<"b", ".", "j", "s", "o", "n">>>>
lib_z_dart == <<<<"l", "i", "b">>, <<"z", ".", "d", "a", "r", "t">>>>
libx_a_dart == <<<<"l", "i", "b", "-", "x">>, <<"a", ".", "d", "a", "r", "t">>>>
notes_md == <<<<"n", "o", "t", "e", "s", ".", "m", "d">>>>
webapp_x_ts == <<<<"w", "e", "b", "a", "p", "p">>, <<"x", ".", "t", "s">>>>
build_o_json == <<<<"b", "u", "i", "l", "d">>, <<"o", ".", "j", "s", "o", "n">>>>
out_json == <<<<"o", "u", "t", ".", "j", "s", "o", "n">>>>
djson_k_css == <<<<"d", ".", "j", "s", "o", "n">>, <<"k", ".", "c", "s", "s">>>>
combined_output_txt == <<<<"c", "o", "m", "b", "i", "n", "e", "d", "_", "o", "u", "t", "p", "u", "t", ".", "t", "x", "t">>>>

OptionalFiles ==
    {a_json, b_json, lib_z_dart, libx_a_dart, notes_md, webapp_x_ts,
     build_o_json, out_json, djson_k_css}

\* what each file holds
FileContent(p) ==
    CASE p = a_json -> <<"{", "\"", "a", "\"", ":", " ", "1", "}">>
      [] p = b_json -> <<"{", "b", "a", "d">>
      [] p = lib_z_dart -> <<"a", " ", "/", "/", "c", "\n", "b">>
      [] p = webapp_x_ts -> <<"$", "{", "C", "O", "D", "E", "B", "A", "S", "E", "}">>
      [] OTHER -> <<"x", " ", " ", "y">>

\* the output_file argument: the default of line 55, or a name of the user's
\* (a name other than the template's and the rules file's)
OutputArgs == {combined_output_txt, out_json}

TemplateText == <<"H", "\n", "$", "{", "C", "O", "D", "E", "B", "A", "S", "E", "}", "\n", "F">>

\* generate_tree(), lines 272-297: the listing printed by the tree utility
\* (or the fallback traversal), taken as an opaque text
generate_tree == <<".">>

----------------------------------------------------------------------------
(* main, lines 127-269 *)

script_path == Resolve(script_name)
output_path == Resolve(output_file)

\* one outfile.write call: the line of the call and the text written
Chunk(line, text) == [line |-> line, text |-> text]

RECURSIVE Text(_)
Text(chunks) ==
    IF chunks = <<>> THEN <<>> ELSE Head(chunks).text \o Text(Tail(chunks))

\* line 219
HeaderText(f) ==
    <<"\n", "=", "=", "=", " ">> \o str(f) \o <<" ", "=", "=", "=", "\n", "\n">>

\* line 216 with a plausible slip: only the file name is searched
ExcludedByFileName(f) ==
    \E pattern \in EXCLUDED_DIRS \cup EXCLUDED_FILES : Contains(f[Len(f)], pattern)

\* line 216
ExcludedByName(f) ==
    \E pattern \in EXCLUDED_DIRS \cup EXCLUDED_FILES : Contains(str(f), pattern)

\* sorting by str(path): a plausible variant of line 215
RECURSIVE sorted_by_str(_)
sorted_by_str(S) ==
    IF S = {} THEN <<>>
    ELSE LET m == CHOOSE x \in S : \A y \in S \ {x} : TextLess(str(x), str(y))
         IN  <<m>> \o sorted_by_str(S \ {m})

\* sorted(matching_files), line 215
RECURSIVE sorted(_)
sorted(S) ==
    IF S = {} THEN <<>>
    ELSE LET m == CHOOSE x \in S : \A y \in S \ {x} : PathLess(x, y)
         IN  <<m>> \o sorted(S \ {m})

BoundedSubsets == {S \in SUBSET OptionalFiles : Cardinality(S) <= MaxFiles}

ScanIdle ==
    /\ file_ext = NoText
    /\ content = NoText
    /\ i = 0
    /\ in_multiline_comment = FALSE
    /\ in_string = FALSE
    /\ string_char = None
    /\ buffer = <<>>
    /\ spc = "idle"
    /\ result = NoText

Init ==
    /\ ScanIdle
    /\ disk \in {S \cup {script_name} \cup t : S \in BoundedSubsets,
                                               t \in {{}, {template_path}}}
    /\ template_text = TemplateText
    /\ output_file \in OutputArgs
    /\ star_files \in BOOLEAN
    /\ pc = "glob_exclude"
    /\ excluded_files = {}
    /\ matching_files = {}
    /\ todo = <<>>
    /\ outfile = <<>>
    /\ processed_count = 0
    /\ errors = {}
    /\ combined_content = NoText
    /\ template_content = NoText
    /\ final_content = NoText
    /\ rules = NoText
    /\ exit_status = NotExited

\* lines 184-187
GlobExclude ==
    /\ pc = "glob_exclude"
    /\ excluded_files' = UNION {Glob(pattern, disk, star_files) : pattern \in exclude_patterns}
    /\ pc' = "glob_include"
    /\ UNCHANGED <<scanVars, disk, template_text, output_file, star_files, matching_files,
                   todo, outfile, processed_count, errors, combined_content,
                   template_content, final_content, rules, exit_status>>

\* lines 189-194
GlobInclude ==
    /\ pc = "glob_include"
    /\ matching_files' =
          {file \in UNION {Glob(pattern, disk, star_files) : pattern \in include_patterns} :
              file \notin excluded_files}
    /\ pc' = "discard"
    /\ UNCHANGED <<scanVars, disk, template_text, output_file, star_files, excluded_files,
                   todo, outfile, processed_count, errors, combined_content,
                   template_content, final_content, rules, exit_status>>

\* lines 196-198
Discard ==
    /\ pc = "discard"
    /\ matching_files' = (matching_files \ {script_path}) \ {output_path}
    /\ pc' = "open"
    /\ UNCHANGED <<scanVars, disk, template_text, output_file, star_files, excluded_files,
                   todo, outfile, processed_count, errors, combined_content,
                   template_content, final_content, rules, exit_status>>

\* lines 200-215: the output file is created (or truncated), the tree and the
\* opening marker are written, and the loop starts over the sorted files
OpenOutput ==
    /\ pc = "open"
    /\ disk' = disk \cup {output_file}
    /\ outfile' = <<Chunk(210, <<"<", "p", "r", "o", "j", "e", "c", "t", "-", "t", "r", "e", "e", ">", "\n">>),
                    Chunk(211, generate_tree \o <<"\n">>),
                    Chunk(212, <<"<", "/", "p", "r", "o", "j", "e", "c", "t", "-", "t", "r", "e", "e", ">", "\n">>),
                    Chunk(213, <<"<", "c", "o", "d", "e", "b", "a", "s", "e", ">", "\n">>)>>
    /\ todo' = sorted(matching_files)
    /\ pc' = "loop"
    /\ UNCHANGED <<scanVars, template_text, output_file, star_files, excluded_files,
                   matching_files, processed_count, errors, combined_content,
                   template_content, final_content, rules, exit_status>>

\* lines 216-217
SkipExcluded ==
    /\ pc = "loop"
    /\ todo # <<>>
    /\ ExcludedByName(Head(todo))
    /\ todo' = Tail(todo)
    /\ UNCHANGED <<scanVars, disk, template_text, output_file, star_files, pc,
                   excluded_files, matching_files, outfile, processed_count, errors,
                   combined_content, template_content, final_content, rules, exit_status>>

\* what infile.read() of lines 221-222 can return for file, the header of the
\* file already written.  The output file itself, opened for writing at line
\* 208, holds what has been flushed so far: nothing, or all of it.
Readable(file, written) ==
    IF file \in Dirs(disk) THEN {}
    ELSE IF Resolve(file) = output_path THEN {<<>>, Text(written)}
    ELSE {FileContent(file)}

\* lines 218-225
ProcessFile ==
    /\ pc = "loop"
    /\ todo # <<>>
    /\ ~ExcludedByName(Head(todo))
    /\ LET file == Head(todo)
           withHeader == Append(outfile, Chunk(219, HeaderText(file)))
       IN  \E read \in Readable(file, withHeader) :
              outfile' = Append(withHeader,
                                Chunk(224, process_file_content(lower(suffix(file)), read)))
    /\ processed_count' = processed_count + 1
    /\ todo' = Tail(todo)
    /\ UNCHANGED <<scanVars, disk, template_text, output_file, star_files, pc,
                   excluded_files, matching_files, errors, combined_content,
                   template_content, final_content, rules, exit_status>>

\* lines 218-219 and 226-227: open or read raises (a directory, no permission,
\* undecodable bytes)
ProcessFileError ==
    /\ pc = "loop"
    /\ todo # <<>>
    /\ ~ExcludedByName(Head(todo))
    /\ outfile' = Append(outfile, Chunk(219, HeaderText(Head(todo))))
    /\ errors' = errors \cup {Head(todo)}
    /\ todo' = Tail(todo)
    /\ UNCHANGED <<scanVars, disk, template_text, output_file, star_files, pc,
                   excluded_files, matching_files, processed_count, combined_content,
                   template_content, final_content, rules, exit_status>>

\* lines 229-235
CloseOutput ==
    /\ pc = "loop"
    /\ todo = <<>>
    /\ outfile' = Append(outfile, Chunk(229, <<"\n", "<", "/", "c", "o", "d", "e", "b", "a", "s", "e", ">">>))
    /\ pc' = "post"
    /\ UNCHANGED <<scanVars, disk, template_text, output_file, star_files, excluded_files,
                   matching_files, todo, processed_count, errors, combined_content,
                   template_content, final_content, rules, exit_status>>

\* lines 241-242
ReadCombined ==
    /\ pc = "post"
    /\ combined_content' = Text(outfile)
    /\ pc' = "template"
    /\ UNCHANGED <<scanVars, disk, template_text, output_file, star_files, excluded_files,
                   matching_files, todo, outfile, processed_count, errors,
                   template_content, final_content, rules, exit_status>>

\* lines 248-250 with a plausible slip: a return where the exit should be
TemplateMissingReturns ==
    /\ pc = "template"
    /\ template_path \notin disk
    /\ exit_status' = Exited(0)
    /\ pc' = "done"
    /\ UNCHANGED <<scanVars, disk, template_text, output_file, star_files, excluded_files,
                   matching_files, todo, outfile, processed_count, errors,
                   combined_content, template_content, final_content, rules>>

\* lines 248-250: SystemExit is not an Exception, the handler of line 267
\* does not catch it
TemplateMissing ==
    /\ pc = "template"
    /\ template_path \notin disk
    /\ exit_status' = Exited(1)
    /\ pc' = "done"
    /\ UNCHANGED <<scanVars, disk, template_text, output_file, star_files, excluded_files,
                   matching_files, todo, outfile, processed_count, errors,
                   combined_content, template_content, final_content, rules>>

\* lines 252-258
MergeTemplate ==
    /\ pc = "template"
    /\ template_path \in disk
    /\ template_content' = template_text
    /\ final_content' = str_replace(template_text, Placeholder, combined_content)
    /\ rules' = final_content'
    /\ disk' = disk \cup {rules_path}
    /\ pc' = "cleanup"
    /\ UNCHANGED <<scanVars, template_text, output_file, star_files, excluded_files,
                   matching_files, todo, outfile, processed_count, errors,
                   combined_content, exit_status>>

\* lines 260-265, and the return of main
Cleanup ==
    /\ pc = "cleanup"
    /\ disk' = disk \ {output_file}
    /\ exit_status' = Exited(0)
    /\ pc' = "done"
    /\ UNCHANGED <<scanVars, template_text, output_file, star_files, excluded_files,
                   matching_files, todo, outfile, processed_count, errors,
                   combined_content, template_content, final_content, rules>>

\* lines 267-269: an exception of a read, a write or the unlink of lines 241-261
PostProcessingError ==
    /\ \/ pc \in {"post", "cleanup"}
       \/ pc = "template" /\ template_path \in disk
    /\ exit_status' = Exited(1)
    /\ pc' = "done"
    /\ UNCHANGED <<scanVars, disk, template_text, output_file, star_files, excluded_files,
                   matching_files, todo, outfile, processed_count, errors,
                   combined_content, template_content, final_content, rules>>

Next ==
    \/ GlobExclude
    \/ GlobInclude
    \/ Discard
    \/ OpenOutput
    \/ SkipExcluded
    \/ ProcessFile
    \/ ProcessFileError
    \/ CloseOutput
    \/ ReadCombined
    \/ TemplateMissing
    \/ MergeTemplate
    \/ Cleanup
    \/ PostProcessingError

Spec == Init /\ [][Next]_vars

----------------------------------------------------------------------------
(* Specification of the merge alone, over templates built from pieces *)

TemplatePieces ==
    {Placeholder, <<"H", "\n">>, <<"\n", "F">>, <<"$", "{", "C", "O", "D", "E", "B", "A", "S", "E">>, <<"}">>, <<"$">>}

RECURSIVE Templates(_)
Templates(n) ==
    IF n = 0 THEN {<<>>}
    ELSE LET prev == Templates(n - 1)
         IN  prev \cup {p \o t : p \in prev, t \in TemplatePieces}

Payloads == {<<>>, <<"X">>, Placeholder, <<"a", "$", "{", "C", "O", "D", "E", "B", "A", "S", "E", "}", "b">>, <<"{", "C", "O", "D", "E", "B", "A", "S", "E", "}">>}

MergeInit ==
    /\ ScanIdle
    /\ disk = {script_name, template_path, combined_output_txt}
    /\ template_text \in Templates(MaxPieces)
    /\ output_file = combined_output_txt
    /\ star_files = FALSE
    /\ pc = "template"
    /\ excluded_files = {}
    /\ matching_files = {}
    /\ todo = <<>>
    /\ outfile = <<>>
    /\ processed_count = 0
    /\ errors = {}
    /\ combined_content \in Payloads
    /\ template_content = NoText
    /\ final_content = NoText
    /\ rules = NoText
    /\ exit_status = NotExited

MergeNext ==
    \/ MergeTemplate
    \/ Cleanup

MergeSpec == MergeInit /\ [][MergeNext]_vars

----------------------------------------------------------------------------
(* Claims about main, checked under Spec *)

\* every path a run can meet
AllEntries ==
    Entries(OptionalFiles \cup {script_name, template_path, rules_path, combined_output_txt})

IsHeader(n) == outfile[n].line = 219

\* the Combined Document holds the header block of p
HasHeader(p) ==
    \E n \in 1..Len(outfile) : IsHeader(n) /\ outfile[n].text = HeaderText(p)

\* the path named by the header block written as chunk n
PathOf(n) == CHOOSE p \in AllEntries : HeaderText(p) = outfile[n].text

\* the header block of p is followed by the processed content of p
HasSection(p) ==
    \E n \in 1..(Len(outfile) - 1) :
        /\ IsHeader(n)
        /\ outfile[n].text = HeaderText(p)
        /\ outfile[n + 1].line = 224

AfterLoop == pc \in {"post", "template", "cleanup", "done"}

\* C2: no file matched by an exclude glob, or whose path string contains an
\* entry of EXCLUDED_DIRS or EXCLUDED_FILES, has a header block, whether or
\* not an include glob matches it.
C2_ExclusionWins ==
    \A p \in AllEntries :
        HasHeader(p) =>
            /\ \A pattern \in exclude_patterns : ~Matches(pattern, p, disk, star_files)
            /\ \A pattern \in EXCLUDED_DIRS \cup EXCLUDED_FILES : ~Contains(str(p), pattern)

\* a file matched by include and exclude globs and a file with an excluded
\* substring were on disk, and the loop wrote the header of another file
C2_Witness ==
    /\ pc = "post"
    /\ notes_md \in disk
    /\ webapp_x_ts \in disk
    /\ HasHeader(a_json)

\* C3 as stated: the header blocks are in strictly ascending order of the
\* path strings compared character by character, separators included.
C3_StringOrder ==
    \A m, n \in 1..Len(outfile) :
        (IsHeader(m) /\ IsHeader(n) /\ m < n)
            => TextLess(str(PathOf(m)), str(PathOf(n)))

\* C3 amended: the header blocks are in strictly ascending order of the
\* paths compared component by component (so no path appears twice).
C3_ComponentOrder ==
    \A m, n \in 1..Len(outfile) :
        (IsHeader(m) /\ IsHeader(n) /\ m < n)
            => PathLess(PathOf(m), PathOf(n))

\* two files whose orders differ between the two comparisons were written
C3_Witness ==
    /\ pc = "post"
    /\ HasHeader(lib_z_dart)
    /\ HasHeader(libx_a_dart)

\* C4: neither the script nor the output file has a header block.
C4_NoSelfInclusion ==
    \A p \in AllEntries :
        HasHeader(p) => Resolve(p) \notin {script_path, output_path}

\* C5: a file whose read or processing fails leaves no section in the
\* Combined Document, and every selected file is still handled: once the loop
\* is over each one has its section or has failed.
C5_FailingFileSkipped ==
    /\ \A f \in errors : ~HasHeader(f)
    /\ AfterLoop =>
          \A f \in matching_files :
              ~ExcludedByName(f) => (f \in errors \/ HasSection(f))

----------------------------------------------------------------------------
(* Claim about the merge, checked under MergeSpec *)

\* where the placeholder occurs in t
Occurrences(t) == {k \in 1..Len(t) : At(t, k, Placeholder)}

RECURSIVE Flatten(_)
Flatten(ss) == IF ss = <<>> THEN <<>> ELSE Head(ss) \o Flatten(Tail(ss))

\* t with the payload at every occurrence of the placeholder and every other
\* character in its place (two occurrences of the placeholder cannot overlap)
Substituted(t, payload) ==
    Flatten([k \in 1..Len(t) |->
                IF k \in Occurrences(t) THEN payload
                ELSE IF \E o \in Occurrences(t) : o < k /\ k < o + Len(Placeholder)
                THEN <<>>
                ELSE <<t[k]>>])

\* C7: the merge writes the template with every occurrence of the
\* placeholder replaced by the combined document, the inserted text not
\* scanned again, and all other template text unchanged.
C7_GlobalReplace ==
    pc \in {"cleanup", "done"} =>
        /\ final_content = Substituted(template_content, combined_content)
        /\ rules = final_content

\* a template with two placeholders was merged with a payload that itself
\* holds the placeholder
C7_Witness ==
    /\ pc = "cleanup"
    /\ Cardinality(Occurrences(template_content)) = 2
    /\ Occurrences(combined_content) # {}
    /\ Len(final_content) = Len(template_content)
                            + 2 * (Len(combined_content) - Len(Placeholder))

----------------------------------------------------------------------------
(* Specification of one call of process_file_content, the scanner taken    *)
(* one loop iteration at a time.                                           *)

\* the pieces the scanned texts are built from
Tokens == {<<"/", "*">>, <<"*", "/">>, <<"/", "/">>, <<"/">>, <<"*">>,
           <<"\n">>, <<" ">>, <<"\"">>, <<"'">>, <<"\\">>, <<"a">>}

RECURSIVE Concats(_)
Concats(n) ==
    IF n = 0 THEN {<<>>}
    ELSE LET prev == Concats(n - 1)
         IN  prev \cup {p \o t : p \in prev, t \in Tokens}

\* whole JSON texts scanned beside the token texts: {"a": 1}, {bad, [1, 2]
JsonSamples ==
    {<<"{", "\"", "a", "\"", ":", " ", "1", "}">>,
     <<"{", "b", "a", "d">>,
     <<"[", "1", ",", " ", "2", "]">>}

DotDart == <<".", "d", "a", "r", "t">>
DotMd == <<".", "m", "d">>

ScanExts == {DotDart, DotJson, DotMd}

Cur ==
    [i |-> i, in_multiline_comment |-> in_multiline_comment, in_string |-> in_string,
     string_char |-> string_char, buffer |-> buffer]

SetCur(s) ==
    /\ i' = s.i
    /\ in_multiline_comment' = s.in_multiline_comment
    /\ in_string' = s.in_string
    /\ string_char' = s.string_char
    /\ buffer' = s.buffer

MainIdle ==
    /\ disk = {}
    /\ template_text = NoText
    /\ output_file = combined_output_txt
    /\ star_files = FALSE
    /\ pc = "idle"
    /\ excluded_files = {}
    /\ matching_files = {}
    /\ todo = <<>>
    /\ outfile = <<>>
    /\ processed_count = 0
    /\ errors = {}
    /\ combined_content = NoText
    /\ template_content = NoText
    /\ final_content = NoText
    /\ rules = NoText
    /\ exit_status = NotExited

ScanInitial ==
    /\ content \in Concats(MaxTokens) \cup JsonSamples
    /\ file_ext \in ScanExts
    /\ i = ScanInit.i
    /\ in_multiline_comment = ScanInit.in_multiline_comment
    /\ in_string = ScanInit.in_string
    /\ string_char = ScanInit.string_char
    /\ buffer = ScanInit.buffer
    /\ spc = IF file_ext \in StructuredExts THEN "scan" ELSE "other"
    /\ result = NoText
    /\ MainIdle

\* the loop body is about to run branch b
Iterating(b) ==
    /\ spc = "scan"
    /\ i <= Len(content)
    /\ Branch(content, Cur) = b

\* lines 76-79
ScanBlockOpen ==
    /\ Iterating("block_open")
    /\ SetCur(ScanStep(content, Cur))
    /\ UNCHANGED <<file_ext, content, spc, result, mainVars>>

\* lines 80-83
ScanBlockClose ==
    /\ Iterating("block_close")
    /\ SetCur(ScanStep(content, Cur))
    /\ UNCHANGED <<file_ext, content, spc, result, mainVars>>

\* lines 84-86
ScanBlockSkip ==
    /\ Iterating("block_skip")
    /\ SetCur(ScanStep(content, Cur))
    /\ UNCHANGED <<file_ext, content, spc, result, mainVars>>

\* lines 89-92
ScanLineComment ==
    /\ Iterating("line_comment")
    /\ SetCur(ScanStep(content, Cur))
    /\ UNCHANGED <<file_ext, content, spc, result, mainVars>>

\* lines 95-103
ScanQuote ==
    /\ Iterating("quote")
    /\ SetCur(ScanStep(content, Cur))
    /\ UNCHANGED <<file_ext, content, spc, result, mainVars>>

\* lines 106-110
ScanWhitespace ==
    /\ Iterating("whitespace")
    /\ SetCur(ScanStep(content, Cur))
    /\ UNCHANGED <<file_ext, content, spc, result, mainVars>>

\* lines 112-113
ScanEmit ==
    /\ Iterating("emit")
    /\ SetCur(ScanStep(content, Cur))
    /\ UNCHANGED <<file_ext, content, spc, result, mainVars>>

\* line 115
ScanReturn ==
    /\ spc = "scan"
    /\ i > Len(content)
    /\ result' = strip(buffer)
    /\ spc' = "done"
    /\ UNCHANGED <<file_ext, content, i, in_multiline_comment, in_string,
                   string_char, buffer, mainVars>>

\* lines 117-124: a suffix outside the structured list
ReturnOther ==
    /\ spc = "other"
    /\ result' = process_file_content(file_ext, content)
    /\ spc' = "done"
    /\ UNCHANGED <<file_ext, content, i, in_multiline_comment, in_string,
                   string_char, buffer, mainVars>>

ScanNext ==
    \/ ScanBlockOpen
    \/ ScanBlockClose
    \/ ScanBlockSkip
    \/ ScanLineComment
    \/ ScanQuote
    \/ ScanWhitespace
    \/ ScanEmit
    \/ ScanReturn
    \/ ReturnOther

ScanSpec == ScanInitial /\ [][ScanNext]_vars

\* the stepped scanner and the function agree
ScanAgrees == spc = "done" => result = process_file_content(file_ext, content)

----------------------------------------------------------------------------
(* Claims about process_file_content, checked under ScanSpec *)

\* the scan of c from state s takes a comment branch
RECURSIVE TakesComment(_, _)
TakesComment(c, s) ==
    /\ s.i <= Len(c)
    /\ \/ Branch(c, s) \in {"block_open", "line_comment"}
       \/ TakesComment(c, ScanStep(c, s))

\* C1: for a .json file whose content is valid JSON, process_file_content
\* returns the canonical compact re-serialisation of the parsed value.
C1_JsonCompact ==
    (spc = "done" /\ file_ext = DotJson /\ json_compact(content).ok)
        => result = json_compact(content).out

\* C8: for a structured file whose text has balanced quotes (the scan ends
\* outside a string) and no comment, normalising the result again yields the
\* same result.
C8_Idempotent ==
    (/\ spc = "done"
     /\ file_ext \in StructuredExts
     /\ ~in_string
     /\ ~TakesComment(content, ScanInit))
        => process_file_content(file_ext, result) = result

\* a text with a quoted string and whitespace to collapse has been normalised
C8_Witness ==
    /\ spc = "done"
    /\ file_ext \in StructuredExts
    /\ ~in_string
    /\ ~TakesComment(content, ScanInit)
    /\ \E k \in 1..Len(content) : content[k] \in QuoteChars
    /\ result # content
    /\ result # <<>>

\* C9: while the scanner is inside a string, every iteration emits the current
\* character unchanged and advances by one; no comment state is entered.
C9_StringsVerbatim ==
    [][(spc = "scan" /\ in_string /\ i <= Len(content))
          => /\ buffer' = Append(buffer, content[i])
             /\ i' = i + 1
             /\ ~in_multiline_comment']_vars

\* the text "// " between double quotes came out whole
C9_Witness ==
    /\ spc = "done"
    /\ file_ext \in StructuredExts
    /\ content = <<"\"", "/", "/", " ", "\"">>
    /\ result = content

\* C10: from the opening marker of a block comment to its closing marker the
\* scanner emits nothing (line breaks and quotes included) and the string
\* state is left as it was.
C10_BlockCommentRemoved ==
    [][(spc = "scan" /\ (in_multiline_comment \/ in_multiline_comment'))
          => /\ buffer' = buffer
             /\ in_string' = in_string
             /\ string_char' = string_char]_vars

\* a closed block comment holding a line break and a quote was scanned, and
\* the scan ended outside any string with nothing emitted
C10_Witness ==
    /\ spc = "done"
    /\ file_ext \in StructuredExts
    /\ content = <<"/", "*", "\n", "\"", "*", "/">>
    /\ ~in_string
    /\ ~in_multiline_comment
    /\ result = <<>>

====
